---------------------------- MODULE Spec2Model ----------------------------
(***************************************************************************)
(* Model of src/main.py: the pipeline that converts every PDF of the       *)
(* working directory to a text artifact, resolves a (start, end) period    *)
(* from each artifact, and renames the PDFs in ascending order of start    *)
(* date with a collision probe.                                            *)
(*                                                                         *)
(* Strings are modelled by their structure:                                *)
(*   - a date-shaped substring "MM/DD/Y.." of a text is a record           *)
(*     [mm, dd, yr, ylen] (ylen = number of year digits, 2..4);            *)
(*   - a text is the sequence of the regex-relevant pieces it contains:    *)
(*     labeled ranges "Statement Period: <d1> to <d2>" and other           *)
(*     date-shaped substrings, in text order;                              *)
(*   - a datetime is a tuple <<year, month, day>>;                         *)
(*   - a formatted date "YYYY-MM-DD" is a record [yyyy, mm, dd];           *)
(*   - a file name in the working directory is a record                    *)
(*     [orig, s, e, suf]: orig > 0 is a document's original name           *)
(*     "doc<orig>.pdf"; orig = 0 is a dated name                           *)
(*     "<s>to<e><_n for n in suf>.pdf" (e = NoStr: the single-date form    *)
(*     "<s>.pdf").                                                         *)
(* create_backup only copies into the backup directory and is not          *)
(* modelled; fitz is taken to read every PDF.                              *)
(***************************************************************************)
EXTENDS Integers, Sequences, FiniteSets, TLC

VARIABLES
    dir,            \* root_dir: PDF file name -> file [id, text]
    txt,            \* output_text_dir: text file name -> content
    visited,        \* text files the os.listdir loop of line 76 has handled
    renaming_info,  \* the list built by extract_date_and_prepare_renaming
    queue,          \* renaming_info_sorted
    i,              \* position of the loop of line 124 in queue (1-based)
    pc,             \* "start", "extract", "rename", "done", "aborted"
    err,            \* the exception that ended the process, "" if none
    run,            \* completed runs of the script
    maxruns,        \* how many times the script is launched
    vanished,       \* whether the environment removed a source file
    log,            \* committed renames of the current run, in order
    dir0,           \* the working directory when the current run started
    snaps           \* the working directory at the end of each completed run

vars == <<dir, txt, visited, renaming_info, queue, i, pc, err, run, maxruns,
          vanished, log, dir0, snaps>>

-----------------------------------------------------------------------------
(* Bounds of the model *)

MaxDocs == 3
MaxTokens == 2
MaxRuns == 2

-----------------------------------------------------------------------------
(* Dates: strptime, the year range, strftime *)

year_min == 2000
year_max == 2026

ValueError == <<0, 0, 0>>
NoStr == [yyyy |-> 0, mm |-> 0, dd |-> 0]
NoDs == [mm |-> 0, dd |-> 0, yr |-> 0, ylen |-> 0]

IsLeap(y) == (y % 4 = 0 /\ y % 100 # 0) \/ y % 400 = 0

DaysIn(y, m) ==
    IF m = 2 THEN (IF IsLeap(y) THEN 29 ELSE 28)
    ELSE IF m \in {4, 6, 9, 11} THEN 30 ELSE 31

\* %y: the two digits are windowed, 69..99 -> 19xx and 00..68 -> 20xx.
TwoDigitYear(yy) == IF yy >= 69 THEN 1900 + yy ELSE 2000 + yy

\* datetime.strptime(ds, fmt), fmt "%m/%d/%Y" or "%m/%d/%y"; ValueError when
\* the string does not match the format or names no calendar date.
Strptime(ds, fmt) ==
    LET shape == IF fmt = "%m/%d/%Y" THEN ds.ylen = 4 ELSE ds.ylen = 2
        y == IF fmt = "%m/%d/%Y" THEN ds.yr ELSE TwoDigitYear(ds.yr)
    IN  IF /\ shape
           /\ y >= 1
           /\ ds.mm \in 1..12
           /\ ds.dd >= 1
           /\ ds.dd <= DaysIn(y, ds.mm)
        THEN <<y, ds.mm, ds.dd>>
        ELSE ValueError

\* The format the loose scan picks for a match (line 94).
LooseFormat(ds) == IF ds.ylen = 4 THEN "%m/%d/%Y" ELSE "%m/%d/%y"

InYearRangeNoMax(date) == year_min <= date[1]

InYearRange(date) == year_min <= date[1] /\ date[1] <= year_max

\* datetime < datetime
DateLess(a, b) ==
    \/ a[1] < b[1]
    \/ a[1] = b[1] /\ a[2] < b[2]
    \/ a[1] = b[1] /\ a[2] = b[2] /\ a[3] < b[3]

Strftime(date) == [yyyy |-> date[1], mm |-> date[2], dd |-> date[3]]

-----------------------------------------------------------------------------
(* Texts *)

RangeToken(a, b) == [kind |-> "range", d1 |-> a, d2 |-> b]
DateToken(a) == [kind |-> "date", d1 |-> a, d2 |-> NoDs]

Ds(m, d, y, l) == [mm |-> m, dd |-> d, yr |-> y, ylen |-> l]


\* The date-shaped substrings the texts of the model are made of.
D_Jan05 == Ds(1, 5, 2022, 4)       \* "01/05/2022"
D_Feb05 == Ds(2, 5, 2022, 4)       \* "02/05/2022"
D_Dec31 == Ds(12, 31, 2021, 4)     \* "12/31/2021"
D_1899 == Ds(1, 1, 1899, 4)        \* "01/01/1899"
D_Bad == Ds(13, 45, 2022, 4)       \* "13/45/2022"
D_Jan05yy == Ds(1, 5, 22, 2)       \* "01/05/22"
D_68 == Ds(1, 1, 68, 2)            \* "01/01/68"
D_Feb29 == Ds(2, 29, 202, 3)       \* "02/29/202"

LongDateStrs == {D_Jan05, D_Dec31, D_1899, D_Bad}
DateStrs == LongDateStrs \cup {D_Jan05yy, D_68, D_Feb29}

Tokens ==
    {DateToken(a) : a \in DateStrs}
        \cup {RangeToken(a, b) : a \in LongDateStrs, b \in LongDateStrs}

RECURSIVE TextsUpTo(_)
TextsUpTo(n) ==
    IF n = 0 THEN {<<>>}
    ELSE LET shorter == TextsUpTo(n - 1)
         IN  shorter \cup {Append(t, k) : t \in shorter, k \in Tokens}

\* The texts of the documents of a batch.
BatchTexts ==
    { <<RangeToken(D_Jan05, D_Feb05)>>,
      <<DateToken(D_Jan05)>>,
      <<DateToken(D_Jan05), DateToken(D_Dec31)>>,
      <<DateToken(D_1899), DateToken(D_68)>>,
      <<RangeToken(D_Bad, D_Jan05)>> }

-----------------------------------------------------------------------------
(* extract_date_and_prepare_renaming: resolving one text *)

\* re.search(r'Statement Period: (\d{2}/\d{2}/\d{4}) to (...)'): the position
\* of the leftmost labeled range, 0 when there is none.
SearchStatementPeriod(content) ==
    LET hits == {k \in 1..Len(content) : content[k].kind = "range"}
    IN  IF hits = {} THEN 0 ELSE CHOOSE k \in hits : \A h \in hits : k <= h

\* re.findall(r'\d{2}/\d{2}/\d{2,4}'), used only when the search found nothing.
FindAllDates(content) ==
    LET only == SelectSeq(content, LAMBDA k : k.kind = "date")
    IN  [k \in 1..Len(only) |-> only[k].d1]

\* Lines 90-98: parse each match, keep the dates of the accepted years.
DateObjects(dates) ==
    LET parsed == [k \in 1..Len(dates) |->
                      Strptime(dates[k], LooseFormat(dates[k]))]
    IN  SelectSeq(parsed, LAMBDA d : d # ValueError /\ InYearRange(d))

\* The order of the date strings "MM/DD/YYYY" read as text.
DateTextLess(a, b) ==
    \/ a[2] < b[2]
    \/ a[2] = b[2] /\ a[3] < b[3]
    \/ a[2] = b[2] /\ a[3] = b[3] /\ a[1] < b[1]

InsertDateAsText(d, s) ==
    LET p == Cardinality({j \in 1..Len(s) : ~DateTextLess(d, s[j])})
    IN  SubSeq(s, 1, p) \o <<d>> \o SubSeq(s, p + 1, Len(s))

RECURSIVE SortDatesAsText(_)
SortDatesAsText(s) ==
    IF s = <<>> THEN <<>>
    ELSE InsertDateAsText(s[Len(s)], SortDatesAsText(SubSeq(s, 1, Len(s) - 1)))

InsertDate(d, s) ==
    LET p == Cardinality({j \in 1..Len(s) : ~DateLess(d, s[j])})
    IN  SubSeq(s, 1, p) \o <<d>> \o SubSeq(s, p + 1, Len(s))

RECURSIVE SortedDates(_)
SortedDates(s) ==
    IF s = <<>> THEN <<>>
    ELSE InsertDate(s[Len(s)], SortedDates(SubSeq(s, 1, Len(s) - 1)))

\* date_objects.sort() (line 102)
SortDates(s) == SortedDates(s)

Resolved(s, e) == [kind |-> "ok", start |-> s, end |-> e]
NoDateFound == [kind |-> "none", start |-> ValueError, end |-> ValueError]
Raised == [kind |-> "raise", start |-> ValueError, end |-> ValueError]

LabeledPeriodOrdered(s, e) ==
    IF DateLess(e, s) THEN Resolved(e, s) ELSE Resolved(s, e)

\* Lines 84-85 with both dates parsed.
LabeledPeriod(s, e) == Resolved(s, e)

\* Lines 82-107 for one text: the period, NoDateFound (the skip of line 107),
\* or the ValueError strptime raises on lines 84-85.
Resolve(content) ==
    LET m == SearchStatementPeriod(content)
    IN  IF m # 0
        THEN LET s == Strptime(content[m].d1, "%m/%d/%Y")
                 e == Strptime(content[m].d2, "%m/%d/%Y")
             IN  IF s = ValueError \/ e = ValueError
                 THEN Raised
                 ELSE LabeledPeriod(s, e)
        ELSE LET date_objects == SortDates(DateObjects(FindAllDates(content)))
             IN  IF date_objects # <<>>
                 THEN Resolved(date_objects[1], date_objects[Len(date_objects)])
                 ELSE NoDateFound

-----------------------------------------------------------------------------
(* File names *)

OrigName(n) == [orig |-> n, s |-> NoStr, e |-> NoStr, suf |-> <<>>]

\* Lines 111-112: f"{start:%Y-%m-%d}to{end:%Y-%m-%d}" + ".pdf"
NewPdfName(start, end) ==
    [orig |-> 0, s |-> Strftime(start), e |-> Strftime(end), suf |-> <<>>]

\* Line 63: filename + '.txt'
TextFileName(filename) == <<filename, ".txt">>

\* Line 109: text_filename[:-4]
OriginalPdfFilename(text_filename) == text_filename[1]

-----------------------------------------------------------------------------
(* rename_files_chronologically: the sort, the collision probe, os.rename *)

InsertTask(t, s) ==
    LET p == Cardinality({j \in 1..Len(s) : ~DateLess(t.start, s[j].start)})
    IN  SubSeq(s, 1, p) \o <<t>> \o SubSeq(s, p + 1, Len(s))

\* sorted(renaming_info, key=lambda x: x[0]) (line 122): stable, so tasks of
\* equal start date keep the order in which os.listdir returned their texts.
RECURSIVE SortedByStart(_)
SortedByStart(info) ==
    IF info = <<>> THEN <<>>
    ELSE InsertTask(info[Len(info)], SortedByStart(SubSeq(info, 1, Len(info) - 1)))

\* os.path.exists(new_pdf_path) (line 131)
PathExists(path, d) == path \in DOMAIN d

SuffixedFromTwo(base, counter) == [base EXCEPT !.suf = Append(@, counter + 1)]

\* f"{new_pdf_base_name}_{counter}.pdf" (line 133)
Suffixed(base, counter) == [base EXCEPT !.suf = Append(@, counter)]

\* The while loop of lines 131-135.
RECURSIVE ProbeLoop(_, _, _, _)
ProbeLoop(new_pdf_name, base, counter, d) ==
    IF PathExists(new_pdf_name, d)
    THEN ProbeLoop(Suffixed(base, counter), base, counter + 1, d)
    ELSE new_pdf_name

ProbeNothing(new_pdf_name, d) == new_pdf_name

\* Lines 125-135: the path the rename is committed to, given the directory as
\* it is when the task is reached.
Probe(new_pdf_name, d) == ProbeLoop(new_pdf_name, new_pdf_name, 1, d)

\* os.rename(src, dst) with src present (line 137): an existing dst is replaced.
OsRename(d, src, dst) ==
    [n \in (DOMAIN d \ {src}) \cup {dst} |-> IF n = dst THEN d[src] ELSE d[n]]

-----------------------------------------------------------------------------
(* Initial states *)

EmptyFn == [x \in {} |-> x]

File(k, t) == [id |-> k, text |-> t]

\* Files a working directory may already hold under a dated name: the target
\* of the labeled range of BatchTexts and its first suffix, with no date in
\* their text.
PreNames ==
    LET target == NewPdfName(<<2022, 1, 5>>, <<2022, 2, 5>>)
    IN  {target, Suffixed(target, 1)}

Directory(k, tx, pre) ==
    [n \in {OrigName(j) : j \in 1..k} \cup pre |->
        IF n.orig > 0 THEN File(n.orig, tx[n.orig])
        ELSE File(0 - 1 - Len(n.suf), <<>>)]

Launch(d, r) ==
    /\ dir = d
    /\ txt = EmptyFn
    /\ visited = {}
    /\ renaming_info = <<>>
    /\ queue = <<>>
    /\ i = 1
    /\ pc = "start"
    /\ err = ""
    /\ run = 0
    /\ maxruns = r
    /\ vanished = FALSE
    /\ log = <<>>
    /\ dir0 = d
    /\ snaps = <<>>

\* One run over a batch of up to MaxDocs documents.
Init ==
    \E k \in 0..MaxDocs : \E tx \in [1..k -> BatchTexts] :
        \E pre \in SUBSET PreNames : Launch(Directory(k, tx, pre), 1)

\* One run over one document of any text of up to MaxTokens pieces, alone or
\* beside a second document that bears a labeled range.
InitResolve ==
    \E t \in TextsUpTo(MaxTokens) : \E k \in 1..2 :
        Launch(Directory(k, <<t, <<RangeToken(D_Jan05, D_Feb05)>> >>, {}), 1)

\* MaxRuns runs, one after the other, over a batch.
InitRerun ==
    \E k \in 1..MaxDocs : \E tx \in [1..k -> BatchTexts] :
        Launch(Directory(k, tx, {}), MaxRuns)

-----------------------------------------------------------------------------
(* Actions *)

\* convert_pdfs_to_text (lines 54-67): one text file per PDF of the working
\* directory, written over an older one of the same name; text files of PDFs
\* that are gone stay.
Convert ==
    /\ pc = "start"
    /\ txt' = [tf \in DOMAIN txt \cup {TextFileName(f) : f \in DOMAIN dir} |->
                 IF OriginalPdfFilename(tf) \in DOMAIN dir
                 THEN dir[OriginalPdfFilename(tf)].text
                 ELSE txt[tf]]
    /\ pc' = "extract"
    /\ visited' = {}
    /\ renaming_info' = <<>>
    /\ queue' = <<>>
    /\ i' = 1
    /\ log' = <<>>
    /\ dir0' = dir
    /\ UNCHANGED <<dir, err, run, maxruns, vanished, snaps>>

\* One iteration of the loop of line 76 that reaches line 113. os.listdir
\* returns the text files in any order.
ExtractOk(tf) ==
    /\ pc = "extract"
    /\ tf \in DOMAIN txt \ visited
    /\ Resolve(txt[tf]).kind = "ok"
    /\ LET r == Resolve(txt[tf])
       IN  renaming_info' =
               Append(renaming_info,
                      [start |-> r.start,
                       original |-> OriginalPdfFilename(tf),
                       new |-> NewPdfName(r.start, r.end)])
    /\ visited' = visited \cup {tf}
    /\ UNCHANGED <<dir, txt, queue, i, pc, err, run, maxruns, vanished, log,
                   dir0, snaps>>

\* One iteration that ends at the continue of line 107.
ExtractSkip(tf) ==
    /\ pc = "extract"
    /\ tf \in DOMAIN txt \ visited
    /\ Resolve(txt[tf]).kind = "none"
    /\ visited' = visited \cup {tf}
    /\ UNCHANGED <<dir, txt, renaming_info, queue, i, pc, err, run, maxruns,
                   vanished, log, dir0, snaps>>

\* One iteration in which strptime raises on line 84 or 85: nothing catches
\* the ValueError and the process ends.
ExtractRaise(tf) ==
    /\ pc = "extract"
    /\ tf \in DOMAIN txt \ visited
    /\ Resolve(txt[tf]).kind = "raise"
    /\ pc' = "aborted"
    /\ err' = "ValueError"
    /\ UNCHANGED <<dir, txt, visited, renaming_info, queue, i, run, maxruns,
                   vanished, log, dir0, snaps>>

\* The loop of line 76 is over: lines 115, 121, 122.
ExtractReturn ==
    /\ pc = "extract"
    /\ visited = DOMAIN txt
    /\ queue' = SortedByStart(renaming_info)
    /\ i' = 1
    /\ pc' = "rename"
    /\ UNCHANGED <<dir, txt, visited, renaming_info, err, run, maxruns,
                   vanished, log, dir0, snaps>>

\* One iteration of the loop of line 124 whose os.rename succeeds.
RenameCommit ==
    /\ pc = "rename"
    /\ i <= Len(queue)
    /\ queue[i].original \in DOMAIN dir
    /\ LET task == queue[i]
           new_pdf_path == Probe(task.new, dir)
       IN  /\ dir' = OsRename(dir, task.original, new_pdf_path)
           /\ log' = Append(log, [start |-> task.start, src |-> task.original,
                                  new |-> task.new, dst |-> new_pdf_path])
    /\ i' = i + 1
    /\ UNCHANGED <<txt, visited, renaming_info, queue, pc, err, run, maxruns,
                   vanished, dir0, snaps>>

\* One iteration whose os.rename finds no source: nothing catches the
\* FileNotFoundError and the process ends.
RenameRaise ==
    /\ pc = "rename"
    /\ i <= Len(queue)
    /\ queue[i].original \notin DOMAIN dir
    /\ pc' = "aborted"
    /\ err' = "FileNotFoundError"
    /\ UNCHANGED <<dir, txt, visited, renaming_info, queue, i, run, maxruns,
                   vanished, log, dir0, snaps>>

\* The loop of line 124 is over and the script ends; it may be launched again.
RenameDone ==
    /\ pc = "rename"
    /\ i > Len(queue)
    /\ run' = run + 1
    /\ snaps' = Append(snaps, dir)
    /\ pc' = IF run + 1 < maxruns THEN "start" ELSE "done"
    /\ UNCHANGED <<dir, txt, visited, renaming_info, queue, i, err, maxruns,
                   vanished, log, dir0>>

\* The environment: the source file of a task not yet reached is removed
\* between the extraction and its rename (once).
Vanish(f) ==
    /\ pc = "rename"
    /\ ~vanished
    /\ f \in DOMAIN dir
    /\ \E j \in i..Len(queue) : queue[j].original = f
    /\ dir' = [n \in DOMAIN dir \ {f} |-> dir[n]]
    /\ vanished' = TRUE
    /\ UNCHANGED <<txt, visited, renaming_info, queue, i, pc, err, run,
                   maxruns, log, dir0, snaps>>

Next ==
    \/ Convert
    \/ \E tf \in DOMAIN txt : ExtractOk(tf)
    \/ \E tf \in DOMAIN txt : ExtractSkip(tf)
    \/ \E tf \in DOMAIN txt : ExtractRaise(tf)
    \/ ExtractReturn
    \/ RenameCommit
    \/ RenameRaise
    \/ RenameDone
    \/ \E f \in DOMAIN dir : Vanish(f)

Spec == Init /\ [][Next]_vars

SpecResolve == InitResolve /\ [][Next]_vars

SpecRerun == InitRerun /\ [][Next]_vars

-----------------------------------------------------------------------------
(* Vocabulary of the properties *)

Last(s) == s[Len(s)]

Committed == Len(log') = Len(log) + 1

Files(d) == {d[n] : n \in DOMAIN d}

WithSuffix(name, n) == [name EXCEPT !.suf = <<n>>]

\* Calendar order by day number.
DayNumber(date) == date[1] * 10000 + date[2] * 100 + date[3]

HasRange(content) == \E k \in 1..Len(content) : content[k].kind = "range"

LeftmostRange(content) ==
    content[CHOOSE k \in 1..Len(content) :
                /\ content[k].kind = "range"
                /\ \A h \in 1..(k - 1) : content[h].kind # "range"]

\* The dates of the date-shaped substrings of a text that parse and whose
\* year is accepted.
ValidDates(content) ==
    {d \in {Strptime(content[k].d1, LooseFormat(content[k].d1)) :
                k \in {h \in 1..Len(content) : content[h].kind = "date"}} :
        d # ValueError /\ d[1] >= 2000 /\ d[1] <= year_max}

TasksOf(tf) ==
    {k \in 1..Len(renaming_info) :
        renaming_info[k].original = OriginalPdfFilename(tf)}

RangeName(s, e) ==
    [orig |-> 0, s |-> [yyyy |-> s[1], mm |-> s[2], dd |-> s[3]],
     e |-> [yyyy |-> e[1], mm |-> e[2], dd |-> e[3]], suf |-> <<>>]

SingleName(s) ==
    [orig |-> 0, s |-> [yyyy |-> s[1], mm |-> s[2], dd |-> s[3]],
     e |-> NoStr, suf |-> <<>>]

\* "doc1.pdf" < "doc2.pdf" < ...
FilenameLess(a, b) == a.orig > 0 /\ b.orig > 0 /\ a.orig < b.orig

-----------------------------------------------------------------------------
(* C1 *)

\* C1: every rename is committed to a path that does not exist at that
\* moment: a path present before and after a step holds the same file, and
\* no step but the environment's removal loses a file.
C1_NoOverwrite ==
    [][ /\ \A n \in DOMAIN dir \cap DOMAIN dir' : dir'[n] = dir[n]
        /\ Committed => Last(log').dst \notin DOMAIN dir
        /\ vanished' = vanished => Files(dir') = Files(dir) ]_vars

\* Two renames of one batch with the same target, which a file of the
\* directory already bore when the batch started, were both committed.
C1_Witness ==
    \E j, k \in 1..Len(log) :
        /\ j < k
        /\ log[j].new = log[k].new
        /\ log[j].new \in DOMAIN dir0
        /\ Cardinality(DOMAIN dir) = Cardinality(DOMAIN dir0)

-----------------------------------------------------------------------------
(* C2 *)

\* C2: renames are committed in ascending order of start date; of two
\* documents of equal start date and equal target, the one of the smaller
\* original filename is renamed first and, the target and its _1 name being
\* free at the start and no third document sharing the target, gets the
\* target while the other gets _1.
C2_CollisionDeterminism ==
    /\ \A j, k \in 1..Len(log) :
          j < k => DayNumber(log[j].start) <= DayNumber(log[k].start)
    /\ \A j, k \in 1..Len(log) :
          ( /\ log[j].start = log[k].start
            /\ log[j].new = log[k].new
            /\ FilenameLess(log[j].src, log[k].src) )
          => /\ j < k
             /\ ( /\ log[j].new \notin DOMAIN dir0
                  /\ WithSuffix(log[j].new, 1) \notin DOMAIN dir0
                  /\ Cardinality({h \in 1..Len(log) : log[h].new = log[j].new}) = 2 )
                => ( /\ log[j].dst = log[j].new
                     /\ log[k].dst = WithSuffix(log[k].new, 1) )

-----------------------------------------------------------------------------
(* C3 *)

\* C3: a task whose source is missing is skipped: it never ends the batch,
\* and when the process has ended after the extraction every task of the
\* batch has been attempted.
C3_SkipOnMissingSource ==
    /\ err # "FileNotFoundError"
    /\ (pc \in {"done", "aborted"} /\ err # "ValueError") => i > Len(queue)

-----------------------------------------------------------------------------
(* C4 *)

\* C4: whatever the texts hold, date resolution does not end the batch:
\* once the extraction is over, every text was handled (a task or a skip).
C4_ResolutionNeverAborts ==
    /\ err # "ValueError"
    /\ pc \in {"rename", "done", "aborted"} => visited = DOMAIN txt

-----------------------------------------------------------------------------
(* C5 *)

\* C5: the target name of a resolved period is the single date when
\* start = end and the range form only when start # end.
C5_CanonicalName ==
    \A k \in 1..Len(renaming_info) :
        LET t == renaming_info[k]
            r == Resolve(txt[TextFileName(t.original)])
        IN  t.new = IF r.start = r.end THEN SingleName(r.start)
                    ELSE RangeName(r.start, r.end)

-----------------------------------------------------------------------------
(* C6 *)

\* C6: a handled text with no labeled range and at least one valid date has
\* one task, whose start is the least and whose end is the greatest valid
\* date by calendar value; so start <= end, and start = end when exactly one
\* valid date exists.
C6_LooseScanMinMax ==
    \A tf \in visited :
        LET valid == ValidDates(txt[tf])
        IN  (~HasRange(txt[tf]) /\ valid # {}) =>
            /\ Cardinality(TasksOf(tf)) = 1
            /\ \A k \in TasksOf(tf) :
                 LET t == renaming_info[k]
                 IN  \E lo, hi \in valid :
                       /\ \A d \in valid : DayNumber(lo) <= DayNumber(d)
                       /\ \A d \in valid : DayNumber(d) <= DayNumber(hi)
                       /\ t.start = lo
                       /\ t.new = RangeName(lo, hi)
                       /\ DayNumber(lo) <= DayNumber(hi)
                       /\ Cardinality(valid) = 1 => lo = hi

\* The text "01/05/2022 ... 12/31/2021" was resolved to 2021-12-31 ..
\* 2022-01-05: the least date is neither the first in the text nor the
\* first as a string.
C6_Witness ==
    \E tf \in visited :
        /\ txt[tf] = <<DateToken(D_Jan05), DateToken(D_Dec31)>>
        /\ \E k \in TasksOf(tf) :
              /\ renaming_info[k].start = <<2021, 12, 31>>
              /\ renaming_info[k].new = RangeName(<<2021, 12, 31>>, <<2022, 1, 5>>)

-----------------------------------------------------------------------------
(* C7 *)

\* C7: a handled text whose labeled range (the leftmost, the one the search
\* finds) has two dates that parse has one task, whose start and end are the
\* labeled pair as written, whatever else the text holds.
C7_ExplicitLabel ==
    \A tf \in visited :
        HasRange(txt[tf]) =>
            LET lab == LeftmostRange(txt[tf])
                s == Strptime(lab.d1, "%m/%d/%Y")
                e == Strptime(lab.d2, "%m/%d/%Y")
            IN  (s # ValueError /\ e # ValueError) =>
                /\ Cardinality(TasksOf(tf)) = 1
                /\ \A k \in TasksOf(tf) :
                     /\ renaming_info[k].start = s
                     /\ renaming_info[k].new = RangeName(s, e)

\* A text with a stray date before a labeled range whose first date is the
\* later one was resolved to the labeled pair, unswapped.
C7_Witness ==
    \E tf \in visited :
        /\ txt[tf] = <<DateToken(D_Dec31), RangeToken(D_Jan05, D_1899)>>
        /\ \E k \in TasksOf(tf) :
              renaming_info[k].new = RangeName(<<2022, 1, 5>>, <<1899, 1, 1>>)

-----------------------------------------------------------------------------
(* C8 *)

\* C8: in the loose scan no start or end has a year outside
\* [year_min, year_max]; a text with no labeled range and no valid date
\* yields no task, its file keeps its name, and the step that skips it
\* leaves the loop running; the extraction ends with every text handled.
C8_YearRangeRejection ==
    [][ /\ \A k \in 1..Len(renaming_info') :
             LET t == renaming_info'[k]
             IN  ~HasRange(txt'[TextFileName(t.original)]) =>
                    /\ t.start[1] >= 2000 /\ t.start[1] <= year_max
                    /\ t.new.s.yyyy >= 2000 /\ t.new.s.yyyy <= year_max
                    /\ t.new.e.yyyy >= 2000 /\ t.new.e.yyyy <= year_max
        /\ \A tf \in visited' :
             (~HasRange(txt'[tf]) /\ ValidDates(txt'[tf]) = {}) =>
                /\ \A k \in 1..Len(renaming_info') :
                      renaming_info'[k].original # OriginalPdfFilename(tf)
                /\ OriginalPdfFilename(tf) \in DOMAIN dir0' =>
                      /\ OriginalPdfFilename(tf) \in DOMAIN dir'
                      /\ dir'[OriginalPdfFilename(tf)] =
                            dir0'[OriginalPdfFilename(tf)]
                /\ tf \notin visited => (pc' = "extract" /\ err' = "")
        /\ pc' \in {"rename", "done"} => visited' = DOMAIN txt' ]_vars

\* A batch ended in which one document, whose only candidates were 1899 and
\* 2068, kept its name and the other document was renamed.
C8_Witness ==
    /\ pc = "done"
    /\ Len(log) = 1
    /\ \E tf \in visited :
          /\ txt[tf] = <<DateToken(D_1899), DateToken(D_68)>>
          /\ OriginalPdfFilename(tf) \in DOMAIN dir

-----------------------------------------------------------------------------
(* C9 *)

\* C9: a run over what a completed run left, with no other change, ends
\* without error and leaves every file under the name it had.
C9_IdempotentRerun ==
    (run >= 1 /\ ~vanished) =>
        /\ pc # "aborted"
        /\ dir = snaps[1]
        /\ Len(snaps) >= 2 => snaps[2] = snaps[1]

-----------------------------------------------------------------------------
(* C10 *)

\* C10: a committed rename goes to the target when the target is free at
\* that moment, and otherwise to target_N for the least N >= 1 whose path is
\* free at that moment; the file then sits under that name.
C10_ProbeResult ==
    [][ Committed =>
          LET e == Last(log')
          IN  /\ e.new \notin DOMAIN dir => e.dst = e.new
              /\ e.new \in DOMAIN dir =>
                    \E n \in 1..(Cardinality(DOMAIN dir) + 1) :
                       /\ e.dst = WithSuffix(e.new, n)
                       /\ e.dst \notin DOMAIN dir
                       /\ \A m \in 1..(n - 1) :
                             WithSuffix(e.new, m) \in DOMAIN dir
              /\ e.dst \in DOMAIN dir'
              /\ dir'[e.dst] = dir[e.src] ]_vars

\* A rename was committed to target_2, past an existing target and target_1.
C10_Witness ==
    \E k \in 1..Len(log) : log[k].dst = WithSuffix(log[k].new, 2)

=============================================================================
